---- MODULE Spec2Model ----
(***************************************************************************)
(* Konsole::CursorTrail (src/terminalDisplay/CursorTrail.{h,cpp}): the     *)
(* cursor trail animator.  One CursorTrail object; its operations are      *)
(* update(), reset() and the three inline setters; needsRender(),          *)
(* opacity(), cursorRect() and trailPolygon() are pure reads of the state. *)
(*                                                                         *)
(* Number representation.  qreal values are fixed-point integers:          *)
(*   - lengths and coordinates in 1/PosScale of a unit (pixel);            *)
(*   - opacity, the chase step and unit-vector components in 1/FracScale;  *)
(*   - the three tunables in 1/TuneScale (10.0 is 100, 1.5 is 15);         *)
(*   - time stamps are qint64 milliseconds, as in the code.                *)
(* dt * m_fadeSpeed is then exact: (ms/1000) * (f/10) = ms*f / FracScale.  *)
(* Products of two scaled values are rounded to the nearest grid point     *)
(* (RoundDiv).  qSqrt(a) > b is decided exactly, on the squares.           *)
(***************************************************************************)
EXTENDS Integers, Sequences, FiniteSets, TLC

VARIABLES
    m_cursorWidth, m_cursorHeight,
    m_targetCenterX, m_targetCenterY,
    m_trailCenterX, m_trailCenterY,
    m_lastUpdateTime, m_opacity, m_needsRender,
    m_animationSpeed, m_fadeSpeed, m_trailWidth,
    call,      \* the call that produced this state, and the path it took
    nCalls     \* number of calls made on the object so far

vars == << m_cursorWidth, m_cursorHeight, m_targetCenterX, m_targetCenterY,
           m_trailCenterX, m_trailCenterY, m_lastUpdateTime, m_opacity,
           m_needsRender, m_animationSpeed, m_fadeSpeed, m_trailWidth,
           call, nCalls >>

-----------------------------------------------------------------------------
(* Representation of qreal *)

PosScale == 100

FracScale == 10000

TuneScale == 10

(* Bounds of the model *)

MaxCalls == 3

MaxTicks == 110

MaxHold == 10

MaxPoly == 4

-----------------------------------------------------------------------------
(* Arithmetic helpers *)

Abs(a) == IF a >= 0 THEN a ELSE -a

Max(a, b) == IF a >= b THEN a ELSE b

\* a / b for b > 0, rounded to the nearest integer, halves away from zero
RoundDiv(a, b) ==
    IF a >= 0 THEN (2 * a + b) \div (2 * b)
              ELSE -((2 * (-a) + b) \div (2 * b))

\* the product of a length (or any scaled value) and a fraction in 1/FracScale
MulFrac(a, f) == RoundDiv(a * f, FracScale)

\* qSqrt(dx*dx + dy*dy) > r, for a length r
DistGreater(dx, dy, r) == r < 0 \/ dx * dx + dy * dy > r * r

\* qSqrt(dx*dx + dy*dy) < r, for a length r
DistLess(dx, dy, r) == r > 0 /\ dx * dx + dy * dy < r * r

RECURSIVE SqrtSearch(_, _, _)
SqrtSearch(n, lo, hi) ==
    IF lo >= hi THEN lo
    ELSE LET mid == (lo + hi + 1) \div 2
         IN  IF mid * mid <= n THEN SqrtSearch(n, mid, hi)
                               ELSE SqrtSearch(n, lo, mid - 1)

\* qSqrt of a squared length, rounded down to the grid
qSqrt(n) == SqrtSearch(n, 0, 46340)

RECURSIVE TwoTo(_)
TwoTo(k) == IF k = 0 THEN 1 ELSE 2 * TwoTo(k - 1)

\* 2^(-k/10) in 1/FracScale, k = 0..9
Pow2Tenths == << 10000, 9330, 8706, 8123, 7579, 7071, 6598, 6156, 5743, 5359 >>

\* qPow(2.0, -e) for e >= 0 given in tenths
qPow2Neg(e10) ==
    IF e10 \div 10 >= 20 THEN 0
    ELSE RoundDiv(Pow2Tenths[(e10 % 10) + 1], TwoTo(e10 \div 10))

-----------------------------------------------------------------------------
(* Class constants, CursorTrail.h *)

DECAY_SLOW == 4

DISTANCE_THRESHOLD == 5 * PosScale

DefaultAnimationSpeed == 100

DefaultFadeSpeed == 15

DefaultTrailWidth == 4

-----------------------------------------------------------------------------
(* QRectF *)

Rect(x, y, w, h) == [x |-> x, y |-> y, w |-> w, h |-> h]

\* QRectF::center()
CenterX(r) == r.x + RoundDiv(r.w, 2)

CenterY(r) == r.y + RoundDiv(r.h, 2)

NoRect == Rect(0, 0, 0, 0)

-----------------------------------------------------------------------------
(* The object's fields as one record *)

State ==
    [ cursorWidth |-> m_cursorWidth, cursorHeight |-> m_cursorHeight,
      targetCenterX |-> m_targetCenterX, targetCenterY |-> m_targetCenterY,
      trailCenterX |-> m_trailCenterX, trailCenterY |-> m_trailCenterY,
      lastUpdateTime |-> m_lastUpdateTime, opacity |-> m_opacity,
      needsRender |-> m_needsRender, animationSpeed |-> m_animationSpeed,
      fadeSpeed |-> m_fadeSpeed, trailWidth |-> m_trailWidth ]

\* CursorTrail::CursorTrail()
Constructed ==
    [ cursorWidth |-> 0, cursorHeight |-> 0,
      targetCenterX |-> 0, targetCenterY |-> 0,
      trailCenterX |-> 0, trailCenterY |-> 0,
      lastUpdateTime |-> 0, opacity |-> 0, needsRender |-> FALSE,
      animationSpeed |-> DefaultAnimationSpeed,
      fadeSpeed |-> DefaultFadeSpeed,
      trailWidth |-> DefaultTrailWidth ]

-----------------------------------------------------------------------------
(* CursorTrail::update, as a function of the state *)

\* faulty variant of TimeGuard: dt < 0.0 instead of dt <= 0.0
TimeGuardStrict(dtMs) == dtMs < 0 \/ dtMs > 1000

\* dt <= 0.0 || dt > 1.0, dt in milliseconds
TimeGuard(dtMs) == dtMs <= 0 \/ dtMs > 1000

\* moveDistance > DISTANCE_THRESHOLD
IsJump(moveDx, moveDy) == DistGreater(moveDx, moveDy, DISTANCE_THRESHOLD)

\* moveDistance > m_cursorWidth * 3
IsLargeJump(moveDx, moveDy, cursorWidth) ==
    DistGreater(moveDx, moveDy, cursorWidth * 3)

\* distance > 1.0
StillChasing(dx, dy) == DistGreater(dx, dy, PosScale)

\* faulty variant of ChaseStep: the division by DECAY_SLOW is left out
ChaseStepNoDecay(animationSpeed, dtMs) ==
    FracScale - qPow2Neg(RoundDiv(animationSpeed * dtMs, 1000))

\* faulty variant of ChaseStep: 1.0 + qPow(...) instead of 1.0 - qPow(...)
ChaseStepSignError(animationSpeed, dtMs) ==
    FracScale + qPow2Neg(RoundDiv(animationSpeed * dtMs, 100 * DECAY_SLOW))

\* faulty variant of ChaseStep: a fixed multiplier per frame (of 16 ms),
\* whatever the time step
ChaseStepPerFrame(animationSpeed, dtMs) ==
    FracScale - qPow2Neg(RoundDiv(animationSpeed * 16, 100 * DECAY_SLOW))

\* step = 1.0 - qPow(2.0, -m_animationSpeed * dt / DECAY_SLOW), in 1/FracScale
\* m_animationSpeed * dt / DECAY_SLOW = (a/10) * (ms/1000) / (DECAY_SLOW/10),
\* which is a * ms / (100 * DECAY_SLOW) tenths
ChaseStep(animationSpeed, dtMs) ==
    FracScale - qPow2Neg(RoundDiv(animationSpeed * dtMs, 100 * DECAY_SLOW))

\* faulty variant of FadedOpacity: the qMax floor is left out
FadedOpacityNoFloor(opacity, dtMs, fadeSpeed) == opacity - dtMs * fadeSpeed

\* faulty variant of FadedOpacity: the fade is added instead of subtracted
FadedOpacityAdds(opacity, dtMs, fadeSpeed) == Max(0, opacity + dtMs * fadeSpeed)

\* qMax(0.0, m_opacity - dt * m_fadeSpeed)
FadedOpacity(opacity, dtMs, fadeSpeed) == Max(0, opacity - dtMs * fadeSpeed)

\* m_opacity > 0.01
Visible(opacity) == opacity > FracScale \div 100

\* faulty variant of UpdateInit: the trail is not snapped to the first observation
UpdateInitNoSnap(s, rect, elapsedMs) ==
    [ s EXCEPT !.cursorWidth = rect.w, !.cursorHeight = rect.h,
               !.targetCenterX = CenterX(rect), !.targetCenterY = CenterY(rect),
               !.lastUpdateTime = elapsedMs,
               !.opacity = 0, !.needsRender = FALSE ]

\* lines 36-46: the first observation
UpdateInit(s, rect, elapsedMs) ==
    [ s EXCEPT !.cursorWidth = rect.w, !.cursorHeight = rect.h,
               !.targetCenterX = CenterX(rect), !.targetCenterY = CenterY(rect),
               !.trailCenterX = CenterX(rect), !.trailCenterY = CenterY(rect),
               !.lastUpdateTime = elapsedMs,
               !.opacity = 0, !.needsRender = FALSE ]

\* faulty variant of UpdateAbort: the time guard returns before the target is stored
UpdateAbortKeepsTarget(s, rect, elapsedMs) ==
    [ s EXCEPT !.cursorWidth = rect.w, !.cursorHeight = rect.h,
               !.lastUpdateTime = elapsedMs ]

\* lines 53-62: the state when the time guard returns
UpdateAbort(s, rect, elapsedMs) ==
    [ s EXCEPT !.cursorWidth = rect.w, !.cursorHeight = rect.h,
               !.targetCenterX = CenterX(rect), !.targetCenterY = CenterY(rect),
               !.lastUpdateTime = elapsedMs ]

\* faulty variant of UpdateJump: a large jump does not re-anchor the trail
UpdateJumpNoAnchor(s, moveDx, moveDy) ==
    IF IsJump(moveDx, moveDy)
    THEN [ s EXCEPT !.opacity = FracScale, !.needsRender = TRUE ]
    ELSE s

\* faulty variant of UpdateJump: a jump re-anchors the trail but does not
\* force the opacity
UpdateJumpNoOpacity(s, moveDx, moveDy) ==
    IF IsJump(moveDx, moveDy) /\ IsLargeJump(moveDx, moveDy, s.cursorWidth)
    THEN [ s EXCEPT !.trailCenterX = s.targetCenterX - moveDx,
                    !.trailCenterY = s.targetCenterY - moveDy ]
    ELSE s

\* lines 64-75: jump detection, on the state with the new target
UpdateJump(s, moveDx, moveDy) ==
    IF IsJump(moveDx, moveDy)
    THEN LET t == IF IsLargeJump(moveDx, moveDy, s.cursorWidth)
                  THEN [ s EXCEPT !.trailCenterX = s.targetCenterX - moveDx,
                                  !.trailCenterY = s.targetCenterY - moveDy ]
                  ELSE s
         IN  [ t EXCEPT !.opacity = FracScale, !.needsRender = TRUE ]
    ELSE s

\* lines 77-95: chase or fade
UpdateChase(s, dtMs) ==
    LET dx == s.targetCenterX - s.trailCenterX
        dy == s.targetCenterY - s.trailCenterY
    IN  IF StillChasing(dx, dy)
        THEN LET step == ChaseStep(s.animationSpeed, dtMs)
             IN  [ s EXCEPT !.trailCenterX = @ + MulFrac(dx, step),
                            !.trailCenterY = @ + MulFrac(dy, step),
                            !.opacity = FracScale, !.needsRender = TRUE ]
        ELSE LET o == FadedOpacity(s.opacity, dtMs, s.fadeSpeed)
             IN  [ s EXCEPT !.opacity = o, !.needsRender = Visible(o) ]

\* CursorTrail::update(cursorRect, elapsedMs)
update(s, rect, elapsedMs) ==
    IF s.lastUpdateTime = 0
    THEN UpdateInit(s, rect, elapsedMs)
    ELSE LET moveDx == CenterX(rect) - s.targetCenterX
             moveDy == CenterY(rect) - s.targetCenterY
             dtMs   == elapsedMs - s.lastUpdateTime
             a      == UpdateAbort(s, rect, elapsedMs)
         IN  IF TimeGuard(dtMs) THEN a
             ELSE UpdateChase(UpdateJump(a, moveDx, moveDy), dtMs)

\* the path update() takes, recorded in call
UpdatePath(s, rect, elapsedMs) ==
    IF s.lastUpdateTime = 0 THEN "init"
    ELSE LET moveDx == CenterX(rect) - s.targetCenterX
             moveDy == CenterY(rect) - s.targetCenterY
             dtMs   == elapsedMs - s.lastUpdateTime
             j      == UpdateJump(UpdateAbort(s, rect, elapsedMs), moveDx, moveDy)
         IN  IF TimeGuard(dtMs) THEN "abort"
             ELSE IF StillChasing(j.targetCenterX - j.trailCenterX,
                                  j.targetCenterY - j.trailCenterY)
                  THEN "chase" ELSE "fade"

\* whether update() takes the jump block, and its inner block, recorded in call
UpdateJumpKind(s, rect, elapsedMs) ==
    LET moveDx == CenterX(rect) - s.targetCenterX
        moveDy == CenterY(rect) - s.targetCenterY
    IN  IF s.lastUpdateTime = 0 \/ TimeGuard(elapsedMs - s.lastUpdateTime)
           \/ ~IsJump(moveDx, moveDy)
        THEN "none"
        ELSE IF IsLargeJump(moveDx, moveDy, rect.w) THEN "large" ELSE "small"

\* faulty variant of reset: m_opacity and m_needsRender are not cleared
resetKeepsOpacity(s) ==
    [ s EXCEPT !.cursorWidth = 0, !.cursorHeight = 0,
               !.targetCenterX = 0, !.targetCenterY = 0,
               !.trailCenterX = 0, !.trailCenterY = 0,
               !.lastUpdateTime = 0 ]

\* faulty variant of reset: m_opacity is cleared but m_needsRender is not
resetKeepsNeedsRender(s) ==
    [ s EXCEPT !.cursorWidth = 0, !.cursorHeight = 0,
               !.targetCenterX = 0, !.targetCenterY = 0,
               !.trailCenterX = 0, !.trailCenterY = 0,
               !.lastUpdateTime = 0, !.opacity = 0 ]

\* faulty variant of reset: the tunables go back to their defaults
resetRestoresTunables(s) ==
    [ s EXCEPT !.cursorWidth = 0, !.cursorHeight = 0,
               !.targetCenterX = 0, !.targetCenterY = 0,
               !.trailCenterX = 0, !.trailCenterY = 0,
               !.lastUpdateTime = 0, !.opacity = 0, !.needsRender = FALSE,
               !.animationSpeed = DefaultAnimationSpeed,
               !.fadeSpeed = DefaultFadeSpeed,
               !.trailWidth = DefaultTrailWidth ]

\* CursorTrail::reset()
reset(s) ==
    [ s EXCEPT !.cursorWidth = 0, !.cursorHeight = 0,
               !.targetCenterX = 0, !.targetCenterY = 0,
               !.trailCenterX = 0, !.trailCenterY = 0,
               !.lastUpdateTime = 0, !.opacity = 0, !.needsRender = FALSE ]

-----------------------------------------------------------------------------
(* Queries *)

\* CursorTrail::cursorRect()
cursorRect(s) ==
    Rect(s.targetCenterX - MulFrac(s.cursorWidth, FracScale \div 2),
         s.targetCenterY - MulFrac(s.cursorHeight, FracScale \div 2),
         s.cursorWidth, s.cursorHeight)

\* CursorTrail::trailPolygon(), lines 128-136: the small rect at the trail
DegeneratePolygon(s) ==
    LET halfWidth  == RoundDiv(s.cursorWidth * 10, 100)
        halfHeight == RoundDiv(s.cursorHeight * 3, 10)
    IN  << << s.trailCenterX - halfWidth, s.trailCenterY - halfHeight >>,
           << s.trailCenterX + halfWidth, s.trailCenterY - halfHeight >>,
           << s.trailCenterX + halfWidth, s.trailCenterY + halfHeight >>,
           << s.trailCenterX - halfWidth, s.trailCenterY + halfHeight >> >>

\* faulty variant of StretchedPolygon: the tie |dx| = |dy| takes the
\* height-based thickness
StretchedPolygonTieHorizontal(s) ==
    LET dx == s.targetCenterX - s.trailCenterX
        dy == s.targetCenterY - s.trailCenterY
        distance == qSqrt(dx * dx + dy * dy)
        perpX == RoundDiv((-dy) * FracScale, distance)
        perpY == RoundDiv(dx * FracScale, distance)
        trailHeight == RoundDiv(s.cursorHeight * 35, 100)
        trailWidth  == RoundDiv(s.cursorWidth * s.trailWidth, TuneScale)
        trailThickness == IF Abs(dx) >= Abs(dy) THEN RoundDiv(trailHeight * 5, 10)
                                                ELSE trailWidth
        offsetX == -RoundDiv(s.cursorWidth * 15, 100)
        offsetY == 0
        px == MulFrac(trailThickness, perpX)
        py == MulFrac(trailThickness, perpY)
    IN  << << s.trailCenterX - px + offsetX, s.trailCenterY - py + offsetY >>,
           << s.targetCenterX - px + offsetX, s.targetCenterY - py + offsetY >>,
           << s.targetCenterX + px + offsetX, s.targetCenterY + py + offsetY >>,
           << s.trailCenterX + px + offsetX, s.trailCenterY + py + offsetY >> >>

\* CursorTrail::trailPolygon(), lines 137-166: the stretched polygon
StretchedPolygon(s) ==
    LET dx == s.targetCenterX - s.trailCenterX
        dy == s.targetCenterY - s.trailCenterY
        distance == qSqrt(dx * dx + dy * dy)
        perpX == RoundDiv((-dy) * FracScale, distance)
        perpY == RoundDiv(dx * FracScale, distance)
        trailHeight == RoundDiv(s.cursorHeight * 35, 100)
        trailWidth  == RoundDiv(s.cursorWidth * s.trailWidth, TuneScale)
        trailThickness == IF Abs(dx) > Abs(dy) THEN RoundDiv(trailHeight * 5, 10)
                                               ELSE trailWidth
        offsetX == -RoundDiv(s.cursorWidth * 15, 100)
        offsetY == 0
        px == MulFrac(trailThickness, perpX)
        py == MulFrac(trailThickness, perpY)
    IN  << << s.trailCenterX - px + offsetX, s.trailCenterY - py + offsetY >>,
           << s.targetCenterX - px + offsetX, s.targetCenterY - py + offsetY >>,
           << s.targetCenterX + px + offsetX, s.targetCenterY + py + offsetY >>,
           << s.trailCenterX + px + offsetX, s.trailCenterY + py + offsetY >> >>

\* faulty variant of PolygonDegenerate: only coinciding positions take the
\* small rect
PolygonDegenerateExact(s) ==
    DistLess(s.targetCenterX - s.trailCenterX,
             s.targetCenterY - s.trailCenterY, PosScale \div 100)

\* distance < 0.1
PolygonDegenerate(s) ==
    DistLess(s.targetCenterX - s.trailCenterX,
             s.targetCenterY - s.trailCenterY, PosScale \div 10)

\* CursorTrail::trailPolygon()
trailPolygon(s) ==
    IF PolygonDegenerate(s) THEN DegeneratePolygon(s) ELSE StretchedPolygon(s)

-----------------------------------------------------------------------------
(* Inputs *)

\* observed cursor rectangles: x, y, width, height
Rects ==
    { Rect(0, 0, 1000, 2000),       \* the 10 x 20 cell at the origin
      Rect(490, 0, 1000, 2000),     \* 4.9 units to the right
      Rect(510, 0, 1000, 2000),     \* 5.1 units to the right
      Rect(2000, 0, 1000, 2000),    \* 20 units: a jump, not above 3 x width
      Rect(5000, 0, 1000, 2000),    \* 50 units: a large jump
      Rect(0, 4000, 200, 400) }     \* two lines down, a smaller cursor

\* time steps offered to update(), in ms: backwards, none, a frame, a long
\* frame, exactly one second, more than one second
TimeSteps == { -16, 0, 16, 80, 1000, 1008 }

\* arguments of the setters, in 1/TuneScale; qPow2Neg covers the non-negative
\* animation speeds, fade speeds of either sign are offered
AnimationSpeeds == { 0, 100, 200 }

FadeSpeeds == { -15, 0, 15 }

TrailWidths == { 4, 8 }

-----------------------------------------------------------------------------
(* The state machine *)

SetState(s) ==
    /\ m_cursorWidth' = s.cursorWidth
    /\ m_cursorHeight' = s.cursorHeight
    /\ m_targetCenterX' = s.targetCenterX
    /\ m_targetCenterY' = s.targetCenterY
    /\ m_trailCenterX' = s.trailCenterX
    /\ m_trailCenterY' = s.trailCenterY
    /\ m_lastUpdateTime' = s.lastUpdateTime
    /\ m_opacity' = s.opacity
    /\ m_needsRender' = s.needsRender
    /\ m_animationSpeed' = s.animationSpeed
    /\ m_fadeSpeed' = s.fadeSpeed
    /\ m_trailWidth' = s.trailWidth

Call(op, rect, elapsedMs, value, path, jump) ==
    [ op |-> op, rect |-> rect, elapsedMs |-> elapsedMs, value |-> value,
      path |-> path, jump |-> jump ]

Init ==
    /\ m_cursorWidth = Constructed.cursorWidth
    /\ m_cursorHeight = Constructed.cursorHeight
    /\ m_targetCenterX = Constructed.targetCenterX
    /\ m_targetCenterY = Constructed.targetCenterY
    /\ m_trailCenterX = Constructed.trailCenterX
    /\ m_trailCenterY = Constructed.trailCenterY
    /\ m_lastUpdateTime = Constructed.lastUpdateTime
    /\ m_opacity = Constructed.opacity
    /\ m_needsRender = Constructed.needsRender
    /\ m_animationSpeed = Constructed.animationSpeed
    /\ m_fadeSpeed = Constructed.fadeSpeed
    /\ m_trailWidth = Constructed.trailWidth
    /\ call = Call("construct", NoRect, 0, 0, "none", "none")
    /\ nCalls = 0

Update(rect, elapsedMs) ==
    /\ elapsedMs >= 0
    /\ SetState(update(State, rect, elapsedMs))
    /\ call' = Call("update", rect, elapsedMs, 0,
                    UpdatePath(State, rect, elapsedMs),
                    UpdateJumpKind(State, rect, elapsedMs))
    /\ nCalls' = nCalls + 1

Reset ==
    /\ SetState(reset(State))
    /\ call' = Call("reset", NoRect, 0, 0, "none", "none")
    /\ nCalls' = nCalls + 1

SetAnimationSpeed(speed) ==
    /\ SetState([ State EXCEPT !.animationSpeed = speed ])
    /\ call' = Call("setAnimationSpeed", NoRect, 0, speed, "none", "none")
    /\ nCalls' = nCalls + 1

SetFadeSpeed(speed) ==
    /\ SetState([ State EXCEPT !.fadeSpeed = speed ])
    /\ call' = Call("setFadeSpeed", NoRect, 0, speed, "none", "none")
    /\ nCalls' = nCalls + 1

SetTrailWidth(width) ==
    /\ SetState([ State EXCEPT !.trailWidth = width ])
    /\ call' = Call("setTrailWidth", NoRect, 0, width, "none", "none")
    /\ nCalls' = nCalls + 1

UpdateAny ==
    /\ nCalls < MaxCalls
    /\ \E rect \in Rects, d \in TimeSteps : Update(rect, m_lastUpdateTime + d)

ResetAny == nCalls < MaxCalls /\ Reset

SetAnimationSpeedAny ==
    nCalls < MaxCalls /\ \E v \in AnimationSpeeds : SetAnimationSpeed(v)

SetFadeSpeedAny ==
    nCalls < MaxCalls /\ \E v \in FadeSpeeds : SetFadeSpeed(v)

SetTrailWidthAny ==
    nCalls < MaxCalls /\ \E v \in TrailWidths : SetTrailWidth(v)

Next ==
    \/ UpdateAny
    \/ ResetAny
    \/ SetAnimationSpeedAny
    \/ SetFadeSpeedAny
    \/ SetTrailWidthAny

Spec == Init /\ [][Next]_vars

-----------------------------------------------------------------------------
(* A cursor that jumps once and is then held still, default tunables *)

\* time steps of the frames while the cursor is held, in ms
HoldSteps == { 16, 80, 400, 1008 }

ChaseFirst == nCalls = 0 /\ \E rect \in Rects : Update(rect, 1000)

ChaseJump ==
    /\ nCalls = 1
    /\ \E rect \in Rects, d \in { 16, 80 } :
          /\ IsJump(CenterX(rect) - m_targetCenterX, CenterY(rect) - m_targetCenterY)
          /\ Update(rect, m_lastUpdateTime + d)

ChaseHold ==
    /\ nCalls >= 2
    /\ nCalls < MaxHold
    /\ \E d \in HoldSteps : Update(call.rect, m_lastUpdateTime + d)

NextChase == ChaseFirst \/ ChaseJump \/ ChaseHold

SpecChase == Init /\ [][NextChase]_vars

-----------------------------------------------------------------------------
(* The end-to-end scenario: one jump of 50 units, then a frame every 16 ms *)

E2EFirst == nCalls = 0 /\ Update(Rect(0, 0, 1000, 2000), 1000)

E2EMove == nCalls = 1 /\ Update(Rect(5000, 0, 1000, 2000), 1016)

E2ETick ==
    /\ nCalls >= 2
    /\ nCalls < MaxTicks
    /\ Update(call.rect, m_lastUpdateTime + 16)

NextE2E == E2EFirst \/ E2EMove \/ E2ETick

SpecE2E == Init /\ [][NextE2E]_vars

-----------------------------------------------------------------------------
(* Moves in all directions, for the geometry of trailPolygon() *)

\* a cell at (5, 10); cells 20 units away on both diagonals, so that
\* |dx| = |dy|; a cell 40 units to the right; a smaller cursor two lines down
PolyRects ==
    { Rect(0, 0, 1000, 2000),
      Rect(2000, 2000, 1000, 2000),
      Rect(2000, -2000, 1000, 2000),
      Rect(4000, 0, 1000, 2000),
      Rect(0, 4000, 200, 400) }

PolySteps == { 16, 80, 400 }

PolyFirst == nCalls = 0 /\ \E rect \in PolyRects : Update(rect, 1000)

PolyMove ==
    /\ nCalls >= 1
    /\ nCalls < MaxPoly
    /\ \E rect \in PolyRects, d \in PolySteps : Update(rect, m_lastUpdateTime + d)

PolyWidth ==
    /\ nCalls < MaxPoly
    /\ \E v \in TrailWidths : SetTrailWidth(v)

NextPoly == PolyFirst \/ PolyMove \/ PolyWidth

SpecPoly == Init /\ [][NextPoly]_vars

-----------------------------------------------------------------------------
(* Vocabulary of the properties.  In an action formula the unprimed state  *)
(* is the object before a call and the primed state the object after it;   *)
(* call' names the call made.                                              *)

\* the step is update(call'.rect, call'.elapsedMs)
UpdateStep == call'.op = "update"

\* the step is an update on an initialized animator
InitializedUpdateStep == UpdateStep /\ m_lastUpdateTime # 0

\* the time step of the update made, in ms
StepDt == call'.elapsedMs - m_lastUpdateTime

\* the step is an update on an initialized animator with 0 < dt <= 1 s
ValidUpdateStep == InitializedUpdateStep /\ StepDt > 0 /\ StepDt <= 1000

\* the displacement of the target made by the update
StepMoveX == CenterX(call'.rect) - m_targetCenterX

StepMoveY == CenterY(call'.rect) - m_targetCenterY

StepMove2 == StepMoveX * StepMoveX + StepMoveY * StepMoveY

\* the update observes the rectangle of the previous update again
SameRectStep ==
    /\ InitializedUpdateStep
    /\ call.op = "update"
    /\ call'.rect = call.rect

\* squared distance between trail and target
Gap2 ==
    (m_targetCenterX - m_trailCenterX) * (m_targetCenterX - m_trailCenterX)
    + (m_targetCenterY - m_trailCenterY) * (m_targetCenterY - m_trailCenterY)

DefaultTunables ==
    /\ m_animationSpeed = DefaultAnimationSpeed
    /\ m_fadeSpeed = DefaultFadeSpeed
    /\ m_trailWidth = DefaultTrailWidth

\* the small rectangle of trailPolygon() about the center of rect
CenteredSmallRect(rect) ==
    LET cx == CenterX(rect)
        cy == CenterY(rect)
        hw == RoundDiv(rect.w, 10)
        hh == RoundDiv(3 * rect.h, 10)
    IN  << << cx - hw, cy - hh >>, << cx + hw, cy - hh >>,
           << cx + hw, cy + hh >>, << cx - hw, cy + hh >> >>

-----------------------------------------------------------------------------
\* C1: the first update after construction or reset (the animator is
\* uninitialized, m_lastUpdateTime = 0) leaves opacity 0, needsRender false,
\* trail = target = center of the observed rectangle, and trailPolygon() is
\* the small rectangle centered on the observed rectangle.
C1_FirstUpdateSnaps ==
    [][ (UpdateStep /\ m_lastUpdateTime = 0) =>
          /\ m_opacity' = 0
          /\ m_needsRender' = FALSE
          /\ m_targetCenterX' = CenterX(call'.rect)
          /\ m_targetCenterY' = CenterY(call'.rect)
          /\ m_trailCenterX' = m_targetCenterX'
          /\ m_trailCenterY' = m_targetCenterY'
          /\ trailPolygon(State') = CenteredSmallRect(call'.rect) ]_vars

\* a first update after a reset, away from the origin
C1_Witness ==
    /\ nCalls >= 3
    /\ call.op = "update"
    /\ call.path = "init"
    /\ m_trailCenterX = CenterX(call.rect)
    /\ m_trailCenterX > 1000
    /\ m_opacity = 0

\* C2 as stated: opacity is within [0, 1] in every reachable state.
C2_OpacityInUnitRange == m_opacity >= 0 /\ m_opacity <= FracScale

\* C2 as amended: opacity is never negative, and no call made while
\* fadeSpeed is non-negative takes opacity from within [0, 1] to above 1.
C2_OpacityBounded ==
    /\ [](m_opacity >= 0)
    /\ [][ (m_fadeSpeed >= 0 /\ m_opacity <= FracScale)
              => m_opacity' <= FracScale ]_vars

\* a fade that was floored at 0 or that left a partial opacity
C2_Witness ==
    /\ call.op = "update"
    /\ call.path = "fade"
    /\ m_fadeSpeed > 0
    /\ m_opacity > 0
    /\ m_opacity < FracScale

\* C3: a valid-dt update that moves the target by at most 5 units, on an
\* animator that is not rendering a trail, does not make the trail appear
\* (needsRender stays false, opacity is not set to 1).  Stated for a
\* non-negative fadeSpeed, so that only the move can make the trail appear.
C3_SmallMoveNoTrail ==
    [][ ( /\ ValidUpdateStep
          /\ ~DistGreater(StepMoveX, StepMoveY, DISTANCE_THRESHOLD)
          /\ m_fadeSpeed >= 0
          /\ ~m_needsRender )
        => (~m_needsRender' /\ m_opacity' < FracScale) ]_vars

\* C4 as stated: after a valid-dt update with a move above 5 units and above
\* 3 x cursorWidth the trail is exactly at the previous target.
C4_TrailAtOldTarget ==
    [][ ( /\ ValidUpdateStep
          /\ DistGreater(StepMoveX, StepMoveY, DISTANCE_THRESHOLD)
          /\ DistGreater(StepMoveX, StepMoveY, 3 * call'.rect.w) )
        => ( /\ m_trailCenterX' = m_targetCenterX
             /\ m_trailCenterY' = m_targetCenterY ) ]_vars

\* C4 as amended: after such an update the trail is at the previous target
\* advanced by one chase step of the same call toward the new target:
\* target_old + step * (target_new - target_old).
C4_TrailOneStepFromOldTarget ==
    [][ ( /\ ValidUpdateStep
          /\ DistGreater(StepMoveX, StepMoveY, DISTANCE_THRESHOLD)
          /\ DistGreater(StepMoveX, StepMoveY, 3 * call'.rect.w) )
        => LET step == FracScale
                       - qPow2Neg(RoundDiv(m_animationSpeed * StepDt, 100 * DECAY_SLOW))
           IN  /\ m_trailCenterX' = m_targetCenterX + MulFrac(StepMoveX, step)
               /\ m_trailCenterY' = m_targetCenterY + MulFrac(StepMoveY, step)
               /\ call'.path = "chase" ]_vars

\* a large jump made while the trail was still away from the old target
C4_Witness ==
    /\ call.op = "update"
    /\ call.jump = "large"
    /\ m_animationSpeed > 0
    /\ m_trailCenterX # m_targetCenterX
    /\ nCalls >= 3

\* C5: an update on an initialized animator whose time step is out of range
\* (nowMs <= lastUpdateTimeMs or more than 1000 ms later) leaves trail,
\* opacity and needsRender as they were, and records the observed size,
\* center and time stamp.
C5_TimeGuardFrame ==
    [][ ( /\ InitializedUpdateStep
          /\ (call'.elapsedMs <= m_lastUpdateTime
               \/ call'.elapsedMs - m_lastUpdateTime > 1000) )
        => ( /\ m_trailCenterX' = m_trailCenterX
             /\ m_trailCenterY' = m_trailCenterY
             /\ m_opacity' = m_opacity
             /\ m_needsRender' = m_needsRender
             /\ m_cursorWidth' = call'.rect.w
             /\ m_cursorHeight' = call'.rect.h
             /\ m_targetCenterX' = CenterX(call'.rect)
             /\ m_targetCenterY' = CenterY(call'.rect)
             /\ m_lastUpdateTime' = call'.elapsedMs ) ]_vars

\* a guarded update that moved the target away from a visible trail
C5_Witness ==
    /\ call.op = "update"
    /\ call.path = "abort"
    /\ m_needsRender
    /\ m_targetCenterX # m_trailCenterX

\* C6 as stated: with default tunables, each update that observes the same
\* rectangle again at a later time stamp strictly shrinks the trail-target
\* gap while the gap is above 1.0; once the gap is at most 1.0 it stays so
\* and opacity does not increase; and with opacity 0 needsRender is false and
\* stays false.
C6_HoldChasesThenFades ==
    [][ (SameRectStep /\ DefaultTunables /\ StepDt > 0) =>
          /\ Gap2 > PosScale * PosScale => Gap2' < Gap2
          /\ Gap2 <= PosScale * PosScale =>
                (Gap2' <= PosScale * PosScale /\ m_opacity' <= m_opacity)
          /\ m_opacity' = 0 => ~m_needsRender'
          /\ (m_opacity = 0 /\ ~m_needsRender /\ Gap2 <= PosScale * PosScale)
                => (m_opacity' = 0 /\ ~m_needsRender') ]_vars

\* C6 as amended: the same, the gap shrinking only on the calls whose time
\* step is at most 1 s (a later call is dropped by the time guard and leaves
\* the gap as it was).
C6_HoldChasesThenFadesValidDt ==
    [][ (SameRectStep /\ DefaultTunables /\ StepDt > 0) =>
          /\ (Gap2 > PosScale * PosScale /\ StepDt <= 1000) => Gap2' < Gap2
          /\ (Gap2 > PosScale * PosScale /\ StepDt > 1000) => Gap2' = Gap2
          /\ Gap2 <= PosScale * PosScale =>
                (Gap2' <= PosScale * PosScale /\ m_opacity' <= m_opacity)
          /\ m_opacity' = 0 => ~m_needsRender'
          /\ (m_opacity = 0 /\ ~m_needsRender /\ Gap2 <= PosScale * PosScale)
                => (m_opacity' = 0 /\ ~m_needsRender') ]_vars

\* a held cursor whose trail has caught up and has completely faded
C6_Witness ==
    /\ call.op = "update"
    /\ call.path = "fade"
    /\ nCalls >= 4
    /\ Gap2 <= PosScale * PosScale
    /\ m_opacity = 0
    /\ ~m_needsRender
    /\ m_trailCenterX # 0

\* C7: once opacity is 0, an update that observes the same rectangle again
\* at a later time stamp leaves opacity 0 and needsRender false.  Stated for
\* a non-negative fadeSpeed, so that the fade branch cannot raise opacity.
C7_IdleStaysIdle ==
    [][ (SameRectStep /\ StepDt > 0 /\ m_opacity = 0 /\ m_fadeSpeed >= 0)
        => (m_opacity' = 0 /\ ~m_needsRender') ]_vars

\* C8 as stated: in the end-to-end scenario the trail has faded out
\* (opacity 0, needsRender false) by nowMs = 1416.
C8_FadedBy1416 ==
    m_lastUpdateTime >= 1416 => (m_opacity = 0 /\ ~m_needsRender)

\* C8 as amended: in the end-to-end scenario the gap shrinks on every call
\* made while it is above 1.0, the trail is rendered on every frame from the
\* jump until nowMs = 1896, and opacity is 0 with needsRender false from
\* nowMs = 1912 on (896 ms after the cursor stopped).
C8_FadedBy1912 ==
    /\ [][ (UpdateStep /\ Gap2 > PosScale * PosScale) => Gap2' < Gap2 ]_vars
    /\ []( (m_lastUpdateTime >= 1016 /\ m_lastUpdateTime < 1912)
             => (m_needsRender /\ m_opacity > 0) )
    /\ []( m_lastUpdateTime >= 1912 => (m_opacity = 0 /\ ~m_needsRender) )

\* the frame of the scenario on which the trail disappears
C8_Witness ==
    /\ m_lastUpdateTime = 1912
    /\ call.path = "fade"
    /\ m_opacity = 0
    /\ ~m_needsRender
    /\ m_targetCenterX = 5500

\* C9 as stated: after reset() the whole state is that of a freshly
\* constructed animator.
C9_ResetEqualsConstructed == call.op = "reset" => State = Constructed

\* C9 as amended: reset() leaves the three tunables as they were and gives
\* every other field the value it has in a freshly constructed animator.
C9_ResetKeepsTunables ==
    [][ call'.op = "reset" =>
          State' = [ Constructed EXCEPT !.animationSpeed = m_animationSpeed,
                                        !.fadeSpeed = m_fadeSpeed,
                                        !.trailWidth = m_trailWidth ] ]_vars

\* a reset of an animator that showed a trail and whose speed had been set
C9_Witness ==
    /\ call.op = "reset"
    /\ nCalls >= 3
    /\ m_animationSpeed # DefaultAnimationSpeed
    /\ m_lastUpdateTime = 0

\* C10: after every update, cursorRect() is the observed rectangle.
C10_CursorRectEchoesObservation ==
    call.op = "update" => cursorRect(State) = call.rect

\* a guarded update and a chasing update, each echoing a rectangle that is
\* not at the origin
C10_Witness ==
    /\ call.op = "update"
    /\ call.path \in { "abort", "chase" }
    /\ call.rect.y > 0
    /\ cursorRect(State) = call.rect
    /\ m_trailCenterY # m_targetCenterY

\* C11: whenever the trail is less than 0.1 from the target (in particular
\* when they coincide), trailPolygon() is the axis-aligned rectangle centered
\* at the trail with half-width 0.10 x cursorWidth and half-height
\* 0.3 x cursorHeight; the stretched polygon, which divides by the distance,
\* is produced only when the distance is at least 0.1.
C11_SmallRectBelowTenth ==
    /\ Gap2 * 100 < PosScale * PosScale =>
          trailPolygon(State) =
            << << m_trailCenterX - RoundDiv(m_cursorWidth, 10),
                  m_trailCenterY - RoundDiv(3 * m_cursorHeight, 10) >>,
               << m_trailCenterX + RoundDiv(m_cursorWidth, 10),
                  m_trailCenterY - RoundDiv(3 * m_cursorHeight, 10) >>,
               << m_trailCenterX + RoundDiv(m_cursorWidth, 10),
                  m_trailCenterY + RoundDiv(3 * m_cursorHeight, 10) >>,
               << m_trailCenterX - RoundDiv(m_cursorWidth, 10),
                  m_trailCenterY + RoundDiv(3 * m_cursorHeight, 10) >> >>
    /\ ~PolygonDegenerate(State) => 10 * qSqrt(Gap2) >= PosScale

\* a trail that has come within 0.1 of the target without reaching it
C11_Witness ==
    /\ call.op = "update"
    /\ call.path = "chase"
    /\ Gap2 > 0
    /\ Gap2 * 100 < PosScale * PosScale
    /\ trailPolygon(State) = DegeneratePolygon(State)

\* C12 as stated: every valid-dt update on an initialized animator that
\* moves the target by more than 5 units ends with opacity 1 and needsRender
\* true.
C12_JumpEndsOpaque ==
    [][ ( /\ ValidUpdateStep
          /\ DistGreater(StepMoveX, StepMoveY, DISTANCE_THRESHOLD) )
        => (m_opacity' = FracScale /\ m_needsRender') ]_vars

\* C12 as amended: such an update ends with opacity 1 and needsRender true
\* when the trail, after the jump block, is more than 1.0 from the new
\* target, which is always so when the move is above 3 x cursorWidth;
\* otherwise (the move is at most 3 x cursorWidth and lands within 1.0 of the
\* trail) the fade of the same call is applied to the forced opacity:
\* opacity = max(0, 1 - dt x fadeSpeed), needsRender = opacity > 0.01.
C12_JumpOpaqueThenChaseOrFade ==
    [][ ( /\ ValidUpdateStep
          /\ DistGreater(StepMoveX, StepMoveY, DISTANCE_THRESHOLD) )
        => LET far == \/ DistGreater(StepMoveX, StepMoveY, 3 * call'.rect.w)
                      \/ DistGreater(CenterX(call'.rect) - m_trailCenterX,
                                     CenterY(call'.rect) - m_trailCenterY,
                                     PosScale)
               faded == FracScale - StepDt * m_fadeSpeed
           IN  IF far
               THEN m_opacity' = FracScale /\ m_needsRender'
               ELSE /\ m_opacity' = (IF faded > 0 THEN faded ELSE 0)
                    /\ m_needsRender' = (m_opacity' * 100 > FracScale) ]_vars

\* a jump of 20 units that landed on the trail and was faded in the same call
C12_Witness ==
    /\ call.op = "update"
    /\ call.jump = "small"
    /\ call.path = "fade"
    /\ m_opacity > 0
    /\ m_opacity < FracScale

\* q lies between p and r
Between(p, q, r) == (p <= q /\ q <= r) \/ (r <= q /\ q <= p)

\* the point (qx, qy) lies on the segment from (px, py) to (rx, ry), up to
\* the rounding of each coordinate to the grid
OnSegment(px, py, qx, qy, rx, ry) ==
    /\ Between(px, qx, rx)
    /\ Between(py, qy, ry)
    /\ 2 * Abs((qx - px) * (ry - py) - (qy - py) * (rx - px))
          <= Abs(rx - px) + Abs(ry - py)

\* squared distance from the trail before the update to the target after it
StepGapBefore2 ==
    (m_targetCenterX' - m_trailCenterX) * (m_targetCenterX' - m_trailCenterX)
    + (m_targetCenterY' - m_trailCenterY) * (m_targetCenterY' - m_trailCenterY)

\* the update re-anchors the trail: valid dt, move above 5 and above 3 x width
ReanchorStep ==
    /\ ValidUpdateStep
    /\ DistGreater(StepMoveX, StepMoveY, DISTANCE_THRESHOLD)
    /\ DistGreater(StepMoveX, StepMoveY, 3 * call'.rect.w)

\* C13 as stated: with default tunables no update moves the trail away from
\* the target or past it: the trail after the call is no farther from the new
\* target than the trail before the call was, and lies on the segment from
\* the trail before the call to the new target.
C13_TrailOnlyApproaches ==
    [][ (UpdateStep /\ DefaultTunables) =>
          /\ Gap2' <= StepGapBefore2
          /\ OnSegment(m_trailCenterX, m_trailCenterY,
                       m_trailCenterX', m_trailCenterY',
                       m_targetCenterX', m_targetCenterY') ]_vars

\* C13 as amended: that holds of every update except those that re-anchor
\* the trail (valid dt, move above 5 units and above 3 x cursorWidth); a
\* re-anchoring update puts the trail on the segment from the previous target
\* to the new target, whatever side of the new target the trail was on.
C13_TrailApproachesOrReanchors ==
    [][ (UpdateStep /\ DefaultTunables) =>
          IF ReanchorStep
          THEN /\ Gap2' <= StepMove2
               /\ OnSegment(m_targetCenterX, m_targetCenterY,
                            m_trailCenterX', m_trailCenterY',
                            m_targetCenterX', m_targetCenterY')
          ELSE /\ Gap2' <= StepGapBefore2
               /\ OnSegment(m_trailCenterX, m_trailCenterY,
                            m_trailCenterX', m_trailCenterY',
                            m_targetCenterX', m_targetCenterY') ]_vars

\* a chase step without a jump that has moved the trail part of the way
C13_Witness ==
    /\ call.op = "update"
    /\ call.path = "chase"
    /\ call.jump = "none"
    /\ DefaultTunables
    /\ Gap2 > PosScale * PosScale
    /\ m_trailCenterY # m_targetCenterY
    /\ nCalls >= 3

\* the time steps a and b into which an interval a + b is split, in ms
SplitSteps == { 16, 80, 400 }

\* the rectangle observed last, observed again
HeldRect == cursorRect(State)

\* the state after one update covering dtMs with the cursor held
Held(s, dtMs) == update(s, HeldRect, s.lastUpdateTime + dtMs)

\* two positions agree up to the rounding of the fixed-point arithmetic
SplitTolerance == PosScale \div 50

SameTrail(s, t) ==
    /\ Abs(s.trailCenterX - t.trailCenterX) <= SplitTolerance
    /\ Abs(s.trailCenterY - t.trailCenterY) <= SplitTolerance

\* trail and target of s are more than 1.0 apart
Chasing(s) ==
    DistGreater(s.targetCenterX - s.trailCenterX,
                s.targetCenterY - s.trailCenterY, PosScale)

\* C14 as stated: for a held cursor, one update covering a + b and two
\* updates covering a and then b leave the trail at the same position.
C14_SplitIndependent ==
    m_lastUpdateTime # 0 =>
      \A a \in SplitSteps, b \in SplitSteps :
        SameTrail(Held(State, a + b), Held(Held(State, a), b))

\* C14 as amended: they do when the trail is still more than 1.0 from the
\* target after the first of the two updates (or was within 1.0 from the
\* start); when the first update brings the trail within 1.0 the second one
\* does not move it, and the two updates leave it where the first one did.
C14_SplitIndependentWhileChasing ==
    m_lastUpdateTime # 0 =>
      \A a \in SplitSteps, b \in SplitSteps :
        IF Chasing(Held(State, a)) \/ ~Chasing(State)
        THEN SameTrail(Held(State, a + b), Held(Held(State, a), b))
        ELSE SameTrail(Held(State, a), Held(Held(State, a), b))

\* a trail 20 units from a held cursor, chasing at twice the default speed:
\* split or not, 32 ms take it to the same place
C14_Witness ==
    /\ call.op = "update"
    /\ m_animationSpeed = 200
    /\ Gap2 > 100 * PosScale * PosScale
    /\ Chasing(Held(State, 16))
    /\ Held(State, 32).trailCenterX # m_trailCenterX
    /\ SameTrail(Held(State, 32), Held(Held(State, 16), 16))

\* C15: with non-negative, non-decreasing time stamps, m_lastUpdateTime is 0
\* exactly when no update has been received since construction or the last
\* reset: an update leaves it non-zero, and an update that follows an update
\* does not take the initialization path again.
C15_SentinelOnlyBeforeFirstUpdate ==
    [][ (UpdateStep /\ call'.elapsedMs >= m_lastUpdateTime) =>
          /\ m_lastUpdateTime' # 0
          /\ call.op = "update" => call'.path # "init" ]_vars

\* C16: when the trail is at least 0.1 from the target, trailPolygon() has
\* four corners in the order trail-minus, target-minus, target-plus,
\* trail-plus: each pair lies at -/+ thickness along the unit perpendicular
\* (-dy, dx)/distance from the trail (or target) moved by
\* (-0.15 x cursorWidth, 0), and the thickness is 0.5 x 0.35 x cursorHeight
\* when |dx| > |dy| and trailWidth x cursorWidth otherwise, the tie included.
C16_StretchedCorners ==
    LET dx == m_targetCenterX - m_trailCenterX
        dy == m_targetCenterY - m_trailCenterY
        distance == qSqrt(Gap2)
        thickness == IF Abs(dx) > Abs(dy)
                       THEN RoundDiv(m_cursorHeight * 175, 1000)
                       ELSE RoundDiv(m_cursorWidth * m_trailWidth, TuneScale)
        ox == MulFrac(thickness, RoundDiv((-dy) * FracScale, distance))
        oy == MulFrac(thickness, RoundDiv(dx * FracScale, distance))
        trailX  == m_trailCenterX - RoundDiv(15 * m_cursorWidth, 100)
        targetX == m_targetCenterX - RoundDiv(15 * m_cursorWidth, 100)
        P == trailPolygon(State)
    IN  Gap2 * 100 >= PosScale * PosScale =>
          /\ Len(P) = 4
          /\ P[1] = << trailX - ox,  m_trailCenterY - oy >>
          /\ P[2] = << targetX - ox, m_targetCenterY - oy >>
          /\ P[3] = << targetX + ox, m_targetCenterY + oy >>
          /\ P[4] = << trailX + ox,  m_trailCenterY + oy >>

\* a trail on the diagonal of its target (|dx| = |dy|), at least 0.1 away,
\* whose polygon takes the width-based thickness
C16_Witness ==
    /\ call.op = "update"
    /\ m_targetCenterX # m_trailCenterX
    /\ Abs(m_targetCenterX - m_trailCenterX) = Abs(m_targetCenterY - m_trailCenterY)
    /\ Gap2 * 100 >= PosScale * PosScale
    /\ RoundDiv(m_cursorHeight * 175, 1000) # RoundDiv(m_cursorWidth * m_trailWidth, TuneScale)
    /\ trailPolygon(State) = StretchedPolygon(State)

\* C17: in every state reachable by update, reset and setter calls,
\* m_needsRender is true exactly when m_opacity > 0.01; in particular
\* needsRender is never true with opacity 0.
C17_NeedsRenderIffVisible ==
    /\ m_needsRender <=> (100 * m_opacity > FracScale)
    /\ m_opacity = 0 => ~m_needsRender

\* a fade that has lowered the opacity below 1 but not to 0.01: the trail is
\* still to be drawn
C17_Witness ==
    /\ call.op = "update"
    /\ call.path = "fade"
    /\ 100 * m_opacity > FracScale
    /\ m_opacity < FracScale
    /\ m_needsRender

\* C18: each setter stores its argument in its own tunable and leaves every
\* other field unchanged, and neither update nor reset changes
\* m_animationSpeed, m_fadeSpeed or m_trailWidth.
C18_TunablesChangedOnlyBySetters ==
    [][ /\ call'.op = "setAnimationSpeed" =>
              State' = [ State EXCEPT !.animationSpeed = call'.value ]
        /\ call'.op = "setFadeSpeed" =>
              State' = [ State EXCEPT !.fadeSpeed = call'.value ]
        /\ call'.op = "setTrailWidth" =>
              State' = [ State EXCEPT !.trailWidth = call'.value ]
        /\ call'.op \in { "update", "reset" } =>
              /\ m_animationSpeed' = m_animationSpeed
              /\ m_fadeSpeed' = m_fadeSpeed
              /\ m_trailWidth' = m_trailWidth ]_vars

\* reset() has been called on an animator whose fade speed and trail width
\* had been changed by their setters, and the values are still in effect
C18_Witness ==
    /\ call.op = "reset"
    /\ m_animationSpeed = DefaultAnimationSpeed
    /\ m_fadeSpeed # DefaultFadeSpeed
    /\ m_trailWidth # DefaultTrailWidth

====
